---- MODULE Spec2Model ----
(***************************************************************************)
(* Model of find_missing_translations (src/missing-translation.py).        *)
(*                                                                         *)
(* Strings whose characters the code inspects (translation keys, template  *)
(* contents, file names) are sequences of one-character strings.  Locale   *)
(* file paths are only compared for equality and are plain strings.  A     *)
(* Python dict is a function whose DOMAIN is its key set; list(missing)    *)
(* is a list of distinct keys in set order, modelled by the set itself     *)
(* (its len is the set's cardinality).                                     *)
(***************************************************************************)
EXTENDS Integers, Sequences, FiniteSets, TLC

VARIABLES
    fs,                        \* locale path -> what open()/json.load() gives
    translation_files,         \* argument: list of locale paths
    walk,                      \* what os.walk(root_dir) yields, file by file
    pc,                        \* position in find_missing_translations
    i,                         \* index of the running for loop
    en_keys,
    en_keys_filtered,
    keys_filtered,
    missing_keys_en,
    total_missing_keys_en,
    all_translations,
    static_text,
    transloco_keys,
    missing_translations_html,
    missing_transloco_keys,
    total_missing_static,
    total_missing_transloco,
    opened,                    \* locale paths opened so far, in order
    scanned,                   \* template paths opened so far, in order
    result                     \* the returned tuple, once pc = "done"

vars == <<fs, translation_files, walk, pc, i, en_keys, en_keys_filtered,
          keys_filtered, missing_keys_en, total_missing_keys_en,
          all_translations, static_text, transloco_keys,
          missing_translations_html, missing_transloco_keys,
          total_missing_static, total_missing_transloco, opened, scanned,
          result>>

inputs == <<fs, translation_files, walk>>

(***************************************************************************)
(* Bounds of the model.                                                    *)
(***************************************************************************)
MaxFiles == 2                  \* longest translation_files list
MaxLen == 4                    \* longest generated template content

(***************************************************************************)
(* Characters and literals of the source.                                  *)
(***************************************************************************)
\* The whitespace of str.strip() and \s that the modelled contents use.
Whitespace == {" ", "\t", "\n"}
StaticExcluded == {"<", ">", "{", "["}
HtmlExt == <<".", "h", "t", "m", "l">>
IndexName == <<"i", "n", "d", "e", "x", ".", "h", "t", "m", "l">>
TranslocoWord == <<"t", "r", "a", "n", "s", "l", "o", "c", "o">>

EmptyDict == [x \in {} |-> {}]

HasDot(key) == \E n \in DOMAIN key : key[n] = "."

EndsWith(s, suffix) ==
    /\ Len(s) >= Len(suffix)
    /\ SubSeq(s, Len(s) - Len(suffix) + 1, Len(s)) = suffix

\* Variant: leaves out every name that ends with 'index.html'.
IsTemplateNameIndexSuffix(name) ==
    EndsWith(name, HtmlExt) /\ ~EndsWith(name, IndexName)

IsTemplateName(name) == EndsWith(name, HtmlExt) /\ name # IndexName

JoinPath(root, file) == [dir |-> root, name |-> file]

(***************************************************************************)
(* str.strip()                                                             *)
(***************************************************************************)
RECURSIVE LStrip(_)
LStrip(s) ==
    IF s # <<>> /\ Head(s) \in Whitespace THEN LStrip(Tail(s)) ELSE s

RECURSIVE RStrip(_)
RStrip(s) ==
    IF s # <<>> /\ s[Len(s)] \in Whitespace
    THEN RStrip(SubSeq(s, 1, Len(s) - 1))
    ELSE s

Strip(s) == RStrip(LStrip(s))

(***************************************************************************)
(* re.findall(r">([^<>{{\[]*?)<", content): the captured groups,           *)
(* scanning left to right without overlap.  From a '>' at p the lazy class *)
(* run ends at the first character of the class's complement; the attempt  *)
(* succeeds only if that character is '<'.                                 *)
(***************************************************************************)
RECURSIVE StaticRunEnd(_, _)
StaticRunEnd(content, q) ==
    IF q > Len(content) \/ content[q] \in StaticExcluded
    THEN q
    ELSE StaticRunEnd(content, q + 1)

RECURSIVE StaticMatchesFrom(_, _)
StaticMatchesFrom(content, p) ==
    IF p > Len(content) THEN {}
    ELSE IF content[p] # ">" THEN StaticMatchesFrom(content, p + 1)
    ELSE LET q == StaticRunEnd(content, p + 1)
         IN  IF q <= Len(content) /\ content[q] = "<"
             THEN {SubSeq(content, p + 1, q - 1)}
                      \cup StaticMatchesFrom(content, q + 1)
             ELSE StaticMatchesFrom(content, p + 1)

StaticTextMatches(content) == StaticMatchesFrom(content, 1)

StaticText(content) ==
    {Strip(text) : text \in {m \in StaticTextMatches(content) : Strip(m) # <<>>}}

(***************************************************************************)
(* re.findall(r"{{\s*'([^']+)'\s*\|\s*transloco\s*}}", content)            *)
(***************************************************************************)
RECURSIVE SkipWs(_, _)
SkipWs(content, q) ==
    IF q <= Len(content) /\ content[q] \in Whitespace
    THEN SkipWs(content, q + 1)
    ELSE q

RECURSIVE NextQuote(_, _)
NextQuote(content, q) ==
    IF q > Len(content) \/ content[q] = "'"
    THEN q
    ELSE NextQuote(content, q + 1)

At(content, q, lit) ==
    /\ q + Len(lit) - 1 <= Len(content)
    /\ SubSeq(content, q, q + Len(lit) - 1) = lit

\* The match starting at p: [ok, key, end], end being the index after it.
TranslocoMatchAt(content, p) ==
    LET q1 == SkipWs(content, p + 2)
        q2 == NextQuote(content, q1 + 1)
        q3 == SkipWs(content, q2 + 1)
        q4 == SkipWs(content, q3 + 1)
        q5 == SkipWs(content, q4 + Len(TranslocoWord))
    IN  [ok  |-> /\ At(content, p, <<"{", "{">>)
                 /\ At(content, q1, <<"'">>)
                 /\ q2 > q1 + 1
                 /\ At(content, q2, <<"'">>)
                 /\ At(content, q3, <<"|">>)
                 /\ At(content, q4, TranslocoWord)
                 /\ At(content, q5, <<"}", "}">>),
         key |-> SubSeq(content, q1 + 1, q2 - 1),
         end |-> q5 + 2]

RECURSIVE TranslocoMatchesFrom(_, _)
TranslocoMatchesFrom(content, p) ==
    IF p > Len(content) THEN {}
    ELSE LET m == TranslocoMatchAt(content, p)
         IN  IF m.ok
             THEN {m.key} \cup TranslocoMatchesFrom(content, m.end)
             ELSE TranslocoMatchesFrom(content, p + 1)

TranslocoKeys(content) == TranslocoMatchesFrom(content, 1)

(***************************************************************************)
(* Helpers of the function body.                                           *)
(***************************************************************************)
en_file == "en.json"

\* Variant: the JSONDecodeError clause is absent.
RefCaughtOnlyNotFound(kind) == kind = "missing"

\* except FileNotFoundError / except json.JSONDecodeError around the
\* reference load.  Any other failure ("nonobject": json.load gives a value
\* without .keys()) is not caught.
RefCaught(kind) == kind \in {"missing", "invalid"}

\* Variant: the JSONDecodeError clause is absent.
LocaleCaughtOnlyNotFound(kind) == kind = "missing"

\* The same two except clauses around each other locale of the diff loop.
LocaleCaught(kind) == kind \in {"missing", "invalid"}

\* ... and of the loop that builds all_translations.
UnionCaught(kind) == kind \in {"missing", "invalid"}

FlatKeys(keys) == {key \in keys : ~HasDot(key)}

\* Variant: the difference of the unfiltered sets.
DiffMissingUnfiltered(reference, candidate) == reference \ candidate

DiffMissing(reference, candidate) == FlatKeys(reference) \ FlatKeys(candidate)

\* missing_keys_en[file] = list(missing); total_missing_keys_en += len(missing)
PutDict(d, k, v) == [x \in DOMAIN d \cup {k} |-> IF x = k THEN v ELSE d[x]]

\* Variant: the classification sets filtered like the diff sets.
UnionKeysFlat(keys) == FlatKeys(keys)

UnionKeys(keys) == keys

\* Variant: only the reference locale is consulted.
IsTranslatedByReference(key, all) == en_file \in DOMAIN all /\ key \in all[en_file]

IsTranslated(key, all) == \E f \in DOMAIN all : key \in all[f]

UntranslatedStatic(tokens, all) == {key \in tokens : ~IsTranslated(key, all)}

\* Variant: no skip of keys holding '.'.
UntranslatedTranslocoNoSkip(tokens, all) ==
    {key \in tokens : ~IsTranslated(key, all)}

UntranslatedTransloco(tokens, all) ==
    {key \in tokens : ~HasDot(key) /\ ~IsTranslated(key, all)}

\* Variant: d[key] = [filepath] instead of append.
AppendOriginOverwrite(d, keys, filepath) ==
    [key \in DOMAIN d \cup keys |->
        IF key \in keys THEN <<filepath>> ELSE d[key]]

\* if key not in d: d[key] = []; d[key].append(filepath), for every key of keys
AppendOrigin(d, keys, filepath) ==
    [key \in DOMAIN d \cup keys |->
        IF key \in keys
        THEN Append(IF key \in DOMAIN d THEN d[key] ELSE <<>>, filepath)
        ELSE d[key]]

Report(mk, mh, mt, ts, tt, tk) ==
    [missing_keys_en           |-> mk,
     missing_translations_html |-> mh,
     missing_transloco_keys    |-> mt,
     total_missing_static      |-> ts,
     total_missing_transloco   |-> tt,
     total_missing_keys_en     |-> tk]

EmptyReport == Report(EmptyDict, EmptyDict, EmptyDict, 0, 0, 0)

(***************************************************************************)
(* Inputs.  A locale file is missing (FileNotFoundError), invalid JSON     *)
(* (JSONDecodeError), JSON that is no object (.keys() fails), or an object *)
(* with a set of keys.                                                     *)
(***************************************************************************)
LocalePaths == {"en.json", "de.json", "fr.json"}

KeyA == <<"a">>
KeyAB == <<"a", ".", "b">>
KeyUniverse == {KeyA, KeyAB}

Obj(keys) == [kind |-> "object", keys |-> keys]
Fail(kind) == [kind |-> kind, keys |-> {}]

LocaleContents ==
    {Fail("missing"), Fail("invalid"), Fail("nonobject")}
        \cup {Obj(K) : K \in SUBSET KeyUniverse}

SeqsUpTo(S, n) == UNION {[1..k -> S] : k \in 0..n}

\* <p>Hi</p><b> a </b>{{ 'zz' | transloco }}{{'a'|transloco}}
HomeContent ==
    <<"<", "p", ">", "H", "i", "<", "/", "p", ">", "<", "b", ">", " ",
      "a", " ", "<", "/", "b", ">", "{", "{", " ", "'", "z", "z", "'",
      " ", "|", " ", "t", "r", "a", "n", "s", "l", "o", "c", "o", " ",
      "}", "}", "{", "{", "'", "a", "'", "|", "t", "r", "a", "n", "s",
      "l", "o", "c", "o", "}", "}">>

\* <p>Hi</p><i>a.b</i>{{'zz'|transloco}}{{ 'z.z' | transloco }}
PageContent ==
    <<"<", "p", ">", "H", "i", "<", "/", "p", ">", "<", "i", ">", "a",
      ".", "b", "<", "/", "i", ">", "{", "{", "'", "z", "z", "'", "|",
      "t", "r", "a", "n", "s", "l", "o", "c", "o", "}", "}", "{", "{",
      " ", "'", "z", ".", "z", "'", " ", "|", " ", "t", "r", "a", "n",
      "s", "l", "o", "c", "o", " ", "}", "}">>

\* <p>Idx</p>{{'ix'|transloco}}
IndexContent ==
    <<"<", "p", ">", "I", "d", "x", "<", "/", "p", ">", "{", "{", "'",
      "i", "x", "'", "|", "t", "r", "a", "n", "s", "l", "o", "c", "o",
      "}", "}">>

\* <p>Txt</p>{{'tx'|transloco}}
NotesContent ==
    <<"<", "p", ">", "T", "x", "t", "<", "/", "p", ">", "{", "{", "'",
      "t", "x", "'", "|", "t", "r", "a", "n", "s", "l", "o", "c", "o",
      "}", "}">>

\* <p>Hi</p>{{'a.b'|transloco}}
XIndexContent ==
    <<"<", "p", ">", "H", "i", "<", "/", "p", ">", "{", "{", "'", "a",
      ".", "b", "'", "|", "t", "r", "a", "n", "s", "l", "o", "c", "o",
      "}", "}">>

HomeName ==
    <<"h", "o", "m", "e", ".", "h", "t", "m", "l">>

PageName ==
    <<"p", "a", "g", "e", ".", "h", "t", "m", "l">>

NotesName ==
    <<"n", "o", "t", "e", "s", ".", "t", "x", "t">>

XIndexName ==
    <<"x", "i", "n", "d", "e", "x", ".", "h", "t", "m", "l">>

BadName ==
    <<"b", "a", "d", ".", "h", "t", "m", "l">>

TemplateFile(dir, name, content) ==
    [dir |-> dir, name |-> name, decodable |-> TRUE, content |-> content]

Undecodable(dir, name) ==
    [dir |-> dir, name |-> name, decodable |-> FALSE, content |-> <<>>]

\* The files of the tree under root_dir, in the order os.walk lists them.
TreeFiles ==
    <<TemplateFile("root", IndexName, IndexContent),
      TemplateFile("root", HomeName, HomeContent),
      TemplateFile("root", XIndexName, XIndexContent),
      TemplateFile("root", NotesName, NotesContent),
      Undecodable("root", BadName),
      TemplateFile("root/sub", IndexName, IndexContent),
      TemplateFile("root/sub", PageName, PageContent)>>

\* The files of TreeFiles at the positions in S, in order.
RECURSIVE Pick(_, _)
Pick(S, n) ==
    IF n = 0 THEN <<>>
    ELSE IF n \in S THEN Append(Pick(S, n - 1), TreeFiles[n])
    ELSE Pick(S, n - 1)

Walks == {Pick(S, Len(TreeFiles)) : S \in SUBSET DOMAIN TreeFiles}

ExtractAlphabet == {">", "<", "{", "[", "a", " "}

InitProgram ==
    /\ pc = "start"
    /\ i = 0
    /\ en_keys = {}
    /\ en_keys_filtered = {}
    /\ keys_filtered = {}
    /\ missing_keys_en = EmptyDict
    /\ total_missing_keys_en = 0
    /\ all_translations = EmptyDict
    /\ static_text = {}
    /\ transloco_keys = {}
    /\ missing_translations_html = EmptyDict
    /\ missing_transloco_keys = EmptyDict
    /\ total_missing_static = 0
    /\ total_missing_transloco = 0
    /\ opened = <<>>
    /\ scanned = <<>>
    /\ result = EmptyReport

\* Every locale state and every short list of paths (repeats included); the
\* tree holds at most home.html.
Init ==
    /\ fs \in [LocalePaths -> LocaleContents]
    /\ translation_files \in SeqsUpTo(LocalePaths, MaxFiles)
    /\ walk \in {<<>>, <<TreeFiles[2]>>}
    /\ InitProgram

\* Every subset of the tree; the locales load or are missing.
ScanLocaleContents == {Fail("missing"), Obj({}), Obj({KeyA}), Obj({KeyAB})}

InitScan ==
    /\ fs \in {f \in [LocalePaths -> ScanLocaleContents] :
                   /\ f[en_file].kind = "object"
                   /\ f["fr.json"] \in {Fail("missing"), Obj({KeyAB})}}
    /\ translation_files \in {<<"en.json", "de.json", "fr.json">>, <<"de.json">>}
    /\ walk \in Walks
    /\ InitProgram

\* One template holding any short content over ExtractAlphabet.
InitExtract ==
    /\ fs = [p \in LocalePaths |-> Obj({KeyA})]
    /\ translation_files = <<"en.json", "de.json">>
    /\ \E c \in SeqsUpTo(ExtractAlphabet, MaxLen) :
           walk = <<TemplateFile("root", HomeName, c)>>
    /\ InitProgram

(***************************************************************************)
(* The steps of find_missing_translations.                                 *)
(***************************************************************************)
\* lines 27-40: load the reference locale.
LoadReference ==
    /\ pc = "start"
    /\ opened' = Append(opened, en_file)
    /\ IF fs[en_file].kind = "object"
       THEN /\ en_keys' = fs[en_file].keys
            /\ pc' = "diff"
            /\ i' = 1
            /\ UNCHANGED result
       ELSE IF RefCaught(fs[en_file].kind)
       THEN /\ result' = EmptyReport
            /\ pc' = "done"
            /\ UNCHANGED <<en_keys, i>>
       ELSE /\ pc' = "raised"
            /\ UNCHANGED <<en_keys, i, result>>
    /\ UNCHANGED <<inputs, en_keys_filtered, keys_filtered, missing_keys_en,
                   total_missing_keys_en, all_translations, static_text,
                   transloco_keys, missing_translations_html,
                   missing_transloco_keys, total_missing_static,
                   total_missing_transloco, scanned>>

\* lines 42-62: one iteration of the diff loop.
DiffStep ==
    /\ pc = "diff"
    /\ i <= Len(translation_files)
    /\ LET file == translation_files[i]
           missing == DiffMissing(en_keys, fs[file].keys)
       IN  IF file = en_file
           THEN /\ i' = i + 1
                /\ UNCHANGED <<pc, opened, en_keys_filtered, keys_filtered,
                               missing_keys_en, total_missing_keys_en>>
           ELSE /\ opened' = Append(opened, file)
                /\ IF fs[file].kind = "object"
                   THEN /\ en_keys_filtered' = FlatKeys(en_keys)
                        /\ keys_filtered' = FlatKeys(fs[file].keys)
                        /\ IF missing # {}
                           THEN /\ missing_keys_en' =
                                       PutDict(missing_keys_en, file, missing)
                                /\ total_missing_keys_en' =
                                       total_missing_keys_en + Cardinality(missing)
                           ELSE UNCHANGED <<missing_keys_en,
                                            total_missing_keys_en>>
                        /\ i' = i + 1
                        /\ UNCHANGED pc
                   ELSE IF LocaleCaught(fs[file].kind)
                   THEN /\ i' = i + 1
                        /\ UNCHANGED <<pc, en_keys_filtered, keys_filtered,
                                       missing_keys_en, total_missing_keys_en>>
                   ELSE /\ pc' = "raised"
                        /\ UNCHANGED <<i, en_keys_filtered, keys_filtered,
                                       missing_keys_en, total_missing_keys_en>>
    /\ UNCHANGED <<inputs, en_keys, all_translations, static_text,
                   transloco_keys, missing_translations_html,
                   missing_transloco_keys, total_missing_static,
                   total_missing_transloco, scanned, result>>

\* lines 65-67: the diff loop is over; all_translations = {en_file: en_keys}.
StartUnion ==
    /\ pc = "diff"
    /\ i > Len(translation_files)
    /\ all_translations' = PutDict(EmptyDict, en_file, en_keys)
    /\ pc' = "union"
    /\ i' = 1
    /\ UNCHANGED <<inputs, en_keys, en_keys_filtered, keys_filtered,
                   missing_keys_en, total_missing_keys_en, static_text,
                   transloco_keys, missing_translations_html,
                   missing_transloco_keys, total_missing_static,
                   total_missing_transloco, opened, scanned, result>>

\* lines 68-77: one iteration of the loop that collects every locale's keys.
UnionStep ==
    /\ pc = "union"
    /\ i <= Len(translation_files)
    /\ LET file == translation_files[i]
       IN  IF file = en_file
           THEN /\ i' = i + 1
                /\ UNCHANGED <<pc, opened, all_translations>>
           ELSE /\ opened' = Append(opened, file)
                /\ IF fs[file].kind = "object"
                   THEN /\ all_translations' =
                               PutDict(all_translations, file,
                                       UnionKeys(fs[file].keys))
                        /\ i' = i + 1
                        /\ UNCHANGED pc
                   ELSE IF UnionCaught(fs[file].kind)
                   THEN /\ i' = i + 1
                        /\ UNCHANGED <<pc, all_translations>>
                   ELSE /\ pc' = "raised"
                        /\ UNCHANGED <<i, all_translations>>
    /\ UNCHANGED <<inputs, en_keys, en_keys_filtered, keys_filtered,
                   missing_keys_en, total_missing_keys_en, static_text,
                   transloco_keys, missing_translations_html,
                   missing_transloco_keys, total_missing_static,
                   total_missing_transloco, scanned, result>>

\* lines 79-82: the totals start at 0 and the walk begins.
StartScan ==
    /\ pc = "union"
    /\ i > Len(translation_files)
    /\ total_missing_static' = 0
    /\ total_missing_transloco' = 0
    /\ pc' = "scan"
    /\ i' = 1
    /\ UNCHANGED <<inputs, en_keys, en_keys_filtered, keys_filtered,
                   missing_keys_en, total_missing_keys_en, all_translations,
                   static_text, transloco_keys, missing_translations_html,
                   missing_transloco_keys, opened, scanned, result>>

\* lines 83-131: one file of the walk.
ScanStep ==
    /\ pc = "scan"
    /\ i <= Len(walk)
    /\ i' = i + 1
    /\ LET file == walk[i]
           filepath == JoinPath(file.dir, file.name)
           st == StaticText(file.content)
           tk == TranslocoKeys(file.content)
           ms == UntranslatedStatic(st, all_translations)
           mt == UntranslatedTransloco(tk, all_translations)
       IN  IF ~IsTemplateName(file.name)
           THEN UNCHANGED <<static_text, transloco_keys,
                            missing_translations_html, missing_transloco_keys,
                            total_missing_static, total_missing_transloco,
                            scanned>>
           ELSE /\ scanned' = Append(scanned, filepath)
                /\ IF ~file.decodable
                   THEN UNCHANGED <<static_text, transloco_keys,
                                    missing_translations_html,
                                    missing_transloco_keys,
                                    total_missing_static,
                                    total_missing_transloco>>
                   ELSE /\ static_text' = st
                        /\ transloco_keys' = tk
                        /\ missing_translations_html' =
                               AppendOrigin(missing_translations_html, ms, filepath)
                        /\ total_missing_static' =
                               total_missing_static + Cardinality(ms)
                        /\ missing_transloco_keys' =
                               AppendOrigin(missing_transloco_keys, mt, filepath)
                        /\ total_missing_transloco' =
                               total_missing_transloco + Cardinality(mt)
    /\ UNCHANGED <<inputs, pc, en_keys, en_keys_filtered, keys_filtered,
                   missing_keys_en, total_missing_keys_en, all_translations,
                   opened, result>>

\* line 133: the walk is over; return the six values.
Return ==
    /\ pc = "scan"
    /\ i > Len(walk)
    /\ result' = Report(missing_keys_en, missing_translations_html,
                        missing_transloco_keys, total_missing_static,
                        total_missing_transloco, total_missing_keys_en)
    /\ pc' = "done"
    /\ UNCHANGED <<inputs, i, en_keys, en_keys_filtered, keys_filtered,
                   missing_keys_en, total_missing_keys_en, all_translations,
                   static_text, transloco_keys, missing_translations_html,
                   missing_transloco_keys, total_missing_static,
                   total_missing_transloco, opened, scanned>>

Next ==
    \/ LoadReference
    \/ DiffStep
    \/ StartUnion
    \/ UnionStep
    \/ StartScan
    \/ ScanStep
    \/ Return

(***************************************************************************)
(* What the report should be, stated from the inputs alone.                *)
(***************************************************************************)
RECURSIVE SumOver(_, _)
SumOver(S, f) ==
    IF S = {} THEN 0
    ELSE LET x == CHOOSE y \in S : TRUE
         IN  f[x] + SumOver(S \ {x}, f)

RefLoaded == fs[en_file].kind = "object"

\* Positions of list L holding a non-reference locale that loads.
Candidates(L) ==
    {n \in DOMAIN L : L[n] # en_file /\ fs[L[n]].kind = "object"}

FailedLocales ==
    {p \in LocalePaths \ {en_file} : fs[p].kind \in {"missing", "invalid"}}

\* Reference keys without '.' that are not keys of locale f.
FlatRefKeysAbsentFrom(f) ==
    {k \in fs[en_file].keys : ~HasDot(k) /\ k \notin fs[f].keys}

\* Keys of every locale of L that loads, the reference included.
KnownKeys(L) ==
    fs[en_file].keys \cup UNION {fs[L[n]].keys : n \in Candidates(L)}

NameEligible(name) ==
    /\ Len(name) >= Len(HtmlExt)
    /\ \A k \in DOMAIN HtmlExt :
           name[Len(name) - Len(HtmlExt) + k] = HtmlExt[k]
    /\ name # IndexName

\* Files of the walk the loop has gone past.
Processed ==
    IF pc = "scan" THEN i - 1
    ELSE IF pc = "done" /\ RefLoaded THEN Len(walk)
    ELSE 0

WasScanned(k) == NameEligible(walk[k].name) /\ walk[k].decodable

PathOf(k) == JoinPath(walk[k].dir, walk[k].name)

UnmatchedStatic(k, L) ==
    {t \in StaticText(walk[k].content) : t \notin KnownKeys(L)}

UnmatchedLookup(k, L) ==
    {t \in TranslocoKeys(walk[k].content) :
         ~HasDot(t) /\ t \notin KnownKeys(L)}

\* Scanned files among the first n of the walk from which t was extracted
\* unmatched, as static text (kind "static") or as a lookup key.
FilesWith(t, kind, n, L) ==
    {k \in 1..n :
        /\ WasScanned(k)
        /\ IF kind = "static" THEN t \in UnmatchedStatic(k, L)
                              ELSE t \in UnmatchedLookup(k, L)}

RECURSIVE OriginsOf(_, _, _, _)
OriginsOf(t, kind, n, L) ==
    IF n = 0 THEN <<>>
    ELSE IF n \in FilesWith(t, kind, n, L)
    THEN Append(OriginsOf(t, kind, n - 1, L), PathOf(n))
    ELSE OriginsOf(t, kind, n - 1, L)

UnmatchedTokens(kind, n, L) ==
    UNION {IF ~WasScanned(k) THEN {}
           ELSE IF kind = "static" THEN UnmatchedStatic(k, L)
           ELSE UnmatchedLookup(k, L) : k \in 1..n}

ExpectedBuckets(kind, n, L) ==
    [t \in UnmatchedTokens(kind, n, L) |-> OriginsOf(t, kind, n, L)]

BucketTotal(d) == SumOver(DOMAIN d, [t \in DOMAIN d |-> Len(d[t])])

\* The report of a run over list L and the whole walk.
ExpectedReport(L) ==
    LET C  == Candidates(L)
        mk == [f \in {L[n] : n \in {m \in C : FlatRefKeysAbsentFrom(L[m]) # {}}}
                  |-> FlatRefKeysAbsentFrom(f)]
        mh == ExpectedBuckets("static", Len(walk), L)
        mt == ExpectedBuckets("lookup", Len(walk), L)
    IN  Report(mk, mh, mt, BucketTotal(mh), BucketTotal(mt),
               SumOver(C, [n \in C |-> Cardinality(FlatRefKeysAbsentFrom(L[n]))]))

NoDuplicates(seq) ==
    \A m, n \in DOMAIN seq : m # n => seq[m] # seq[n]

Range(seq) == {seq[n] : n \in DOMAIN seq}

(***************************************************************************)
(* Claims.                                                                 *)
(***************************************************************************)

\* C1: once the reference locale has loaded, a static text token equal to a
\* key of any loaded locale (the reference or another listed one) is never in
\* the missing-static mapping and never counts in the missing-static total:
\* the total is at most the number of (file, token) pairs whose token is a
\* key of no loaded locale.
C1_StaticKeyNeverMissing ==
    (pc \in {"scan", "done"} /\ RefLoaded) =>
        /\ \A t \in DOMAIN missing_translations_html :
               t \notin KnownKeys(translation_files)
        /\ total_missing_static <=
               SumOver(1..Processed,
                       [k \in 1..Processed |->
                           IF WasScanned(k)
                           THEN Cardinality(UnmatchedStatic(k, translation_files))
                           ELSE 0])
        /\ pc = "done" =>
               /\ DOMAIN result.missing_translations_html
                      = DOMAIN missing_translations_html
               /\ result.total_missing_static = total_missing_static

\* C1 witness: a finished run scanned a file holding a static token that is a
\* key of de.json only, and the token is not reported.
C1_Witness ==
    /\ pc = "done"
    /\ RefLoaded
    /\ \E k \in DOMAIN walk : \E t \in StaticText(walk[k].content) :
           /\ WasScanned(k)
           /\ t \notin fs[en_file].keys
           /\ \E n \in Candidates(translation_files) :
                  translation_files[n] = "de.json" /\ t \in fs["de.json"].keys
           /\ t \notin DOMAIN result.missing_translations_html

\* C2: the missing-key result of a non-reference locale is exactly the set of
\* reference keys without '.' that are not keys of that locale; it is stored
\* when it is not empty, and never holds a key containing '.'.
C2_DiffIsFlatDifference ==
    /\ \A f \in DOMAIN missing_keys_en :
           /\ missing_keys_en[f] = FlatRefKeysAbsentFrom(f)
           /\ \A k \in missing_keys_en[f] : ~HasDot(k)
    /\ pc \in {"diff", "union", "scan", "done"} /\ RefLoaded =>
           \A n \in Candidates(translation_files) :
               (pc = "diff" => n < i) /\ FlatRefKeysAbsentFrom(translation_files[n]) # {}
                   => translation_files[n] \in DOMAIN missing_keys_en

\* C2 witness: the reference holds a dotted key and a flat key, both absent
\* from a listed locale, and the diff of that locale is the flat key alone.
C2_Witness ==
    /\ pc = "done"
    /\ \E f \in DOMAIN result.missing_keys_en :
           /\ KeyAB \in fs[en_file].keys
           /\ KeyAB \notin fs[f].keys
           /\ result.missing_keys_en[f] = {KeyA}

\* C3: a lookup token whose key contains '.' is never in the missing-lookup
\* mapping and never counts in the missing-lookup total, also when no loaded
\* locale defines it.
C3_DottedLookupNeverMissing ==
    (pc \in {"scan", "done"} /\ RefLoaded) =>
        /\ \A t \in DOMAIN missing_transloco_keys : ~HasDot(t)
        /\ total_missing_transloco <=
               SumOver(1..Processed,
                       [k \in 1..Processed |->
                           IF WasScanned(k)
                           THEN Cardinality(
                                    {t \in TranslocoKeys(walk[k].content) :
                                         ~HasDot(t)})
                           ELSE 0])
        /\ pc = "done" =>
               /\ DOMAIN result.missing_transloco_keys
                      = DOMAIN missing_transloco_keys
               /\ result.total_missing_transloco = total_missing_transloco

\* C3 witness: a finished run scanned a file with a dotted lookup key that no
\* loaded locale defines, and the key is not reported.
C3_Witness ==
    /\ pc = "done"
    /\ RefLoaded
    /\ \E k \in DOMAIN walk : \E t \in TranslocoKeys(walk[k].content) :
           /\ WasScanned(k)
           /\ HasDot(t)
           /\ t \notin KnownKeys(translation_files)
           /\ t \notin DOMAIN result.missing_transloco_keys

C6_Original ==
    /\ \A k \in en_keys_filtered \cup keys_filtered : ~HasDot(k)
    /\ (pc \in {"scan", "done"} /\ RefLoaded) =>
           \A k \in 1..Processed :
               WasScanned(k) =>
                   /\ \A t \in StaticText(walk[k].content) :
                          t \notin DOMAIN missing_translations_html
                              => t \in FlatKeys(KnownKeys(translation_files))
                   /\ \A t \in TranslocoKeys(walk[k].content) :
                          ~HasDot(t) /\ t \notin DOMAIN missing_transloco_keys
                              => t \in FlatKeys(KnownKeys(translation_files))

\* C6 amended: the two sets compared in the diff exclude every key containing
\* '.'; the per-locale sets consulted in classification are the locales'
\* complete key sets, dotted keys included, so a static token is reported
\* exactly when it is a key (dotted or not) of no loaded locale, and a lookup
\* token exactly when it has no '.' and is a key of no loaded locale.
C6_Amended ==
    /\ \A k \in en_keys_filtered \cup keys_filtered : ~HasDot(k)
    /\ \A f \in DOMAIN missing_keys_en :
           \A k \in missing_keys_en[f] : ~HasDot(k)
    /\ \A f \in DOMAIN all_translations : all_translations[f] = fs[f].keys
    /\ pc = "done" /\ RefLoaded =>
           \A k \in DOMAIN walk :
               WasScanned(k) =>
                   /\ \A t \in StaticText(walk[k].content) :
                          t \in DOMAIN result.missing_translations_html
                              <=> t \notin KnownKeys(translation_files)
                   /\ \A t \in TranslocoKeys(walk[k].content) :
                          t \in DOMAIN result.missing_transloco_keys
                              <=> (~HasDot(t) /\ t \notin KnownKeys(translation_files))

\* C6 witness: a finished run scanned a file holding a static token equal to a
\* dotted key that only non-reference locales define; the token is not
\* reported.
C6_Witness ==
    /\ pc = "done"
    /\ RefLoaded
    /\ \E k \in DOMAIN walk : \E t \in StaticText(walk[k].content) :
           /\ WasScanned(k)
           /\ HasDot(t)
           /\ t \notin fs[en_file].keys
           /\ t \in KnownKeys(translation_files)
           /\ t \notin DOMAIN result.missing_translations_html

\* C7: a token (static, or lookup without '.') that is a key of no loaded
\* locale and is extracted from N scanned files has a bucket of exactly N
\* origin entries, one per file; each total is the sum of the bucket lengths
\* of its mapping.
C7_OneOriginPerFile ==
    (pc \in {"scan", "done"} /\ RefLoaded) =>
        /\ \A kind \in {"static", "lookup"} :
             LET d == IF kind = "static" THEN missing_translations_html
                                         ELSE missing_transloco_keys
             IN  /\ DOMAIN d = UnmatchedTokens(kind, Processed, translation_files)
                 /\ \A t \in DOMAIN d :
                      LET files == FilesWith(t, kind, Processed, translation_files)
                      IN  /\ Len(d[t]) = Cardinality(files)
                          /\ NoDuplicates(d[t])
                          /\ Range(d[t]) = {PathOf(k) : k \in files}
        /\ total_missing_static = BucketTotal(missing_translations_html)
        /\ total_missing_transloco = BucketTotal(missing_transloco_keys)
        /\ pc = "done" =>
               /\ result.missing_translations_html = missing_translations_html
               /\ result.missing_transloco_keys = missing_transloco_keys
               /\ result.total_missing_static = total_missing_static
               /\ result.total_missing_transloco = total_missing_transloco

\* C7 witness: the returned report holds a static token with three origins
\* and a lookup token with two.
C7_Witness ==
    /\ pc = "done"
    /\ \E t \in DOMAIN result.missing_translations_html :
           Len(result.missing_translations_html[t]) = 3
    /\ \E t \in DOMAIN result.missing_transloco_keys :
           Len(result.missing_transloco_keys[t]) = 2

\* C8 as stated: the returned total of missing reference-diff keys is the sum
\* of the lengths of the lists of the returned missing-keys mapping.
C8_TotalIsSumOfLists ==
    pc = "done" =>
        result.total_missing_keys_en =
            SumOver(DOMAIN result.missing_keys_en,
                    [f \in DOMAIN result.missing_keys_en |->
                        Cardinality(result.missing_keys_en[f])])

\* C9: only files whose name ends with '.html' and is not 'index.html' are
\* opened or named as an origin; index.html is left out at every depth, and
\* every other '.html' file that decodes is scanned and named as the origin
\* of each of its unmatched tokens.
C9_OnlyTemplatesContribute ==
    /\ \A n \in DOMAIN scanned : NameEligible(scanned[n].name)
    /\ \A t \in DOMAIN missing_translations_html :
           \A n \in DOMAIN missing_translations_html[t] :
               NameEligible(missing_translations_html[t][n].name)
    /\ \A t \in DOMAIN missing_transloco_keys :
           \A n \in DOMAIN missing_transloco_keys[t] :
               NameEligible(missing_transloco_keys[t][n].name)
    /\ pc = "done" /\ RefLoaded =>
           \A k \in DOMAIN walk :
               IF NameEligible(walk[k].name)
               THEN /\ PathOf(k) \in Range(scanned)
                    /\ walk[k].decodable =>
                         /\ \A t \in UnmatchedStatic(k, translation_files) :
                                PathOf(k) \in Range(result.missing_translations_html[t])
                         /\ \A t \in UnmatchedLookup(k, translation_files) :
                                PathOf(k) \in Range(result.missing_transloco_keys[t])
               ELSE /\ PathOf(k) \notin Range(scanned)
                    /\ \A t \in DOMAIN result.missing_translations_html :
                           PathOf(k) \notin Range(result.missing_translations_html[t])
                    /\ \A t \in DOMAIN result.missing_transloco_keys :
                           PathOf(k) \notin Range(result.missing_transloco_keys[t])

\* C9 witness: the whole tree was walked; xindex.html is an origin, and the
\* token of index.html is reported from nowhere.
C9_Witness ==
    /\ pc = "done"
    /\ walk = TreeFiles
    /\ \E t \in DOMAIN result.missing_translations_html :
           JoinPath("root", XIndexName) \in Range(result.missing_translations_html[t])
    /\ \A t \in StaticText(IndexContent) :
           t \notin DOMAIN result.missing_translations_html

\* The static tokens of C10: the trimmed, non-empty texts between a '>' and
\* the next '<' (no '>' or '<' in between) whose span holds neither '{{' nor
\* '['.
ClaimedStaticText(content) ==
    LET spans == {pq \in (DOMAIN content) \X (DOMAIN content) :
                     /\ pq[1] < pq[2]
                     /\ content[pq[1]] = ">"
                     /\ content[pq[2]] = "<"
                     /\ \A m \in (pq[1] + 1)..(pq[2] - 1) :
                            content[m] \notin {"<", ">"}}
        HasOpen(pq) ==
            \/ \E m \in (pq[1] + 1)..(pq[2] - 1) : content[m] = "["
            \/ \E m \in (pq[1] + 1)..(pq[2] - 2) :
                   content[m] = "{" /\ content[m + 1] = "{"
        texts == {SubSeq(content, pq[1] + 1, pq[2] - 1) :
                      pq \in {x \in spans : ~HasOpen(x)}}
    IN  {Strip(text) : text \in {x \in texts : Strip(x) # <<>>}}

\* C10 as stated: the static tokens extracted from a template are exactly the
\* trimmed, non-empty texts between a '>' and the next '<' whose span holds
\* neither '{{' nor '['.
C10_StaticExtraction ==
    (pc \in {"scan", "done"} /\ Processed >= 1 /\ WasScanned(Processed)) =>
        static_text = ClaimedStaticText(walk[Processed].content)

Spec == Init /\ [][Next]_vars

SpecScan == InitScan /\ [][Next]_vars

SpecExtract == InitExtract /\ [][Next]_vars

====
